---- MODULE Spec2Model ----
(***************************************************************************)
(* NoteApp: an express application with an e-mail OTP signup flow          *)
(* (POST /signup, /verify-otp, /set-password), password login and notes    *)
(* that belong to a user.  The persistent state is three mongoose          *)
(* collections (User, OTP, Note); the transient state is one express       *)
(* session per client cookie.                                              *)
(*                                                                         *)
(* Every handler is an async function: between two awaits it runs without *)
(* interruption, at an await the requests of the other sessions may run.   *)
(* A handler is therefore one action per stretch that reads or writes      *)
(* shared state (a collection) in a way another request can observe.  A    *)
(* client sends its requests one after the other, so a session has at most *)
(* one request in flight, and the session object a request sees is the     *)
(* one the previous request of that client left.                           *)
(***************************************************************************)
EXTENDS Integers, Sequences, FiniteSets, TLC

VARIABLES
    variant,      \* which of the two copies of the application is running
    users,        \* User collection: sequence of documents, _id = index
    otps,         \* OTP collection: set of documents
    notes,        \* Note collection: set of documents
    session,      \* session |-> req.session of that client
    pc,           \* session |-> where its request in flight stands
    local,        \* session |-> the local constants of the request in flight
    noteSeq,      \* number of Note documents created so far
    out,          \* what the last step sent out: a response, a mail, or nothing
    now,          \* the clock new Date() reads
    otpSeq,       \* number of OTP documents created so far (the next _id)
    stale,        \* history: _ids of OTP documents that a later one superseded
    verifyCount,  \* history: OTP _id |-> number of verifications that passed on it
    authProof     \* history: session |-> how it came by its userId

vars == <<variant, users, otps, notes, noteSeq, session, pc, local, out, now, otpSeq,
          stale, verifyCount, authProof>>

----------------------------------------------------------------------------
(* Bounds *)

MaxOtp == 2
MaxUsers == 2
MaxNotes == 2

Sessions == {"s1", "s2"}
Emails == {"a@x.com"}
NoteEmails == {"a@x.com", "b@x.com"}
Texts == {"t1", "t2"}
FlowTexts == {"t1"}
Codes == {"100000", "999999"}
Passwords == {"secret"}
LoginPasswords == Passwords \cup {"wrong"}
Salts == {"salt1"}

----------------------------------------------------------------------------
(* Values *)

\* JavaScript's undefined, for a string field and for an ObjectId field
Undefined == "undefined"
NoId == 0

EmptySession == [userIdentifier |-> Undefined, tempUserIdentifier |-> Undefined,
                 userId |-> NoId]

NoLocals == [email |-> Undefined, otpCode |-> Undefined, doc |-> NoId, latestOtp |-> NoId]

NoMail == [to |-> Undefined, otp |-> Undefined]
\* the parameters of a request that the answers are told apart by
NoReq == [otp |-> Undefined, id |-> NoId]
ReqOtp(otp) == [otp |-> otp, id |-> NoId]
ReqId(id) == [otp |-> Undefined, id |-> id]

NoOut == [s |-> "-", req |-> NoReq, resp |-> "-", mail |-> NoMail, body |-> {}]

\* res.send / res.redirect / res.render of session s's request
Respond(s, r) == out' = [s |-> s, req |-> NoReq, resp |-> r, mail |-> NoMail, body |-> {}]
RespondTo(s, req, r) == out' = [s |-> s, req |-> req, resp |-> r, mail |-> NoMail, body |-> {}]

\* res.render(view, { note }) or res.render(view, { notes })
Render(s, req, r, found) ==
    out' = [s |-> s, req |-> req, resp |-> r, mail |-> NoMail, body |-> found]

\* the request of s is over
Finish(s) == /\ pc' = [pc EXCEPT ![s] = "idle"]
             /\ local' = [local EXCEPT ![s] = NoLocals]

\* the password kept as it came
BcryptHashPlain(password, salt) == password

\* bcrypt.hash(password, 12): the string "$2b$12$", the salt and the digest of
\* salt and password; the digest stands as salt and password in brackets
BcryptHash(password, salt) == "$2b$12$" \o salt \o "(" \o salt \o password \o ")"

\* a comparison that accepts every password
BcryptCompareAlways(password, hash) == TRUE

\* bcrypt.compare(password, hash): hashes the password with the salt that the
\* hash carries and compares
BcryptCompare(password, hash) == \E salt \in Salts : BcryptHash(password, salt) = hash

\* User.findOne({ email }): the ids of the documents with that email
UsersByEmail(email) == {i \in 1..Len(users) : users[i].email = email}

\* OTP.find({ userIdentifier: email })
OtpFind(email) == {r \in otps : r.userIdentifier = email}

\* the sort with the direction reversed, { createdAt: 1 }: the oldest comes first
LatestOtpsAscending(email) ==
    {r \in OtpFind(email) : \A r2 \in OtpFind(email) : r2.createdAt >= r.createdAt}

\* .sort({ createdAt: -1 })[0]: the documents that may come first; documents
\* with equal createdAt come in an order the database does not promise
LatestOtps(email) ==
    {r \in OtpFind(email) : \A r2 \in OtpFind(email) : r2.createdAt <= r.createdAt}

\* OTP.deleteOne({ _id: id }): removes the document if it is still there
OtpDeleteOne(id) == {r \in otps : r._id # id}

----------------------------------------------------------------------------
(* Initial state: empty database, no session holds anything *)

InitStores ==
    /\ otps = {}
    /\ notes = {}
    /\ noteSeq = 0
    /\ session = [s \in Sessions |-> EmptySession]
    /\ pc = [s \in Sessions |-> "idle"]
    /\ local = [s \in Sessions |-> NoLocals]
    /\ out = NoOut
    /\ now = 1
    /\ otpSeq = 0
    /\ stale = {}
    /\ verifyCount = <<>>
    /\ authProof = [s \in Sessions |-> "none"]

Init == variant = "app" /\ users = <<>> /\ InitStores

----------------------------------------------------------------------------
(* POST /signup *)

\* The copy with the check: User.findOne({ email }) before anything else
SignupCheck(s, email) ==
    /\ variant = "part"
    /\ pc[s] = "idle"
    /\ IF UsersByEmail(email) # {}
       THEN /\ Respond(s, "Email already registered. Please login.")
            /\ UNCHANGED <<pc, local>>
       ELSE /\ pc' = [pc EXCEPT ![s] = "signup_create"]
            /\ local' = [local EXCEPT ![s] = [NoLocals EXCEPT !.email = email]]
            /\ out' = NoOut
    /\ UNCHANGED <<variant, users, otps, notes, noteSeq, session, now, otpSeq, stale,
                   verifyCount, authProof>>

\* the handler drawing a second code for the mail
SignupCreateTwoCodes(s, email, otpCode) ==
    /\ \/ variant = "app" /\ pc[s] = "idle"
       \/ variant = "part" /\ pc[s] = "signup_create" /\ local[s].email = email
    /\ otpSeq < MaxOtp
    /\ LET doc == [_id |-> otpSeq + 1, userIdentifier |-> email,
                   otp |-> otpCode, createdAt |-> now]
       IN /\ otps' = otps \cup {doc}
          /\ stale' = stale \cup {r._id : r \in {o \in OtpFind(email) :
                                      o.createdAt < now /\ o.otp # otpCode}}
    /\ otpSeq' = otpSeq + 1
    /\ verifyCount' = Append(verifyCount, 0)
    /\ pc' = [pc EXCEPT ![s] = "signup_mail"]
    /\ \E mailCode \in Codes :
         local' = [local EXCEPT ![s] = [NoLocals EXCEPT !.email = email, !.otpCode = mailCode,
                                                        !.doc = otpSeq + 1]]
    /\ out' = NoOut
    /\ UNCHANGED <<variant, users, notes, noteSeq, session, now, authProof>>

\* otpCode = Math.floor(100000 + Math.random() * 900000).toString();
\* await OTP.create({ userIdentifier: email, otp: otpCode, createdAt: new Date() })
SignupCreate(s, email, otpCode) ==
    /\ \/ variant = "app" /\ pc[s] = "idle"
       \/ variant = "part" /\ pc[s] = "signup_create" /\ local[s].email = email
    /\ otpSeq < MaxOtp
    /\ LET doc == [_id |-> otpSeq + 1, userIdentifier |-> email,
                   otp |-> otpCode, createdAt |-> now]
       IN /\ otps' = otps \cup {doc}
          /\ stale' = stale \cup {r._id : r \in {o \in OtpFind(email) :
                                      o.createdAt < now /\ o.otp # otpCode}}
    /\ otpSeq' = otpSeq + 1
    /\ verifyCount' = Append(verifyCount, 0)
    /\ pc' = [pc EXCEPT ![s] = "signup_mail"]
    /\ local' = [local EXCEPT ![s] = [NoLocals EXCEPT !.email = email, !.otpCode = otpCode,
                                                      !.doc = otpSeq + 1]]
    /\ out' = NoOut
    /\ UNCHANGED <<variant, users, notes, noteSeq, session, now, authProof>>

\* app.use((err, req, res, next) => ...): an error without a status is
\* answered with status 500 and the page that shows its message
ErrorHandler(s) == Respond(s, "500 error page")

\* asyncWrap(fn): a rejection of the handler's promise goes to next(err)
AsyncWrapCatch(s) == ErrorHandler(s)

\* the handler with req.session.userIdentifier = email placed before sendMail
SignupMailFailsPendingSet(s) ==
    /\ pc[s] = "signup_mail"
    /\ now' = now + 1
    /\ session' = [session EXCEPT ![s].userIdentifier = local[s].email]
    /\ AsyncWrapCatch(s)
    /\ Finish(s)
    /\ UNCHANGED <<variant, users, otps, notes, noteSeq, otpSeq, stale,
                   verifyCount, authProof>>

\* await transporter.sendMail(...) rejects
SignupMailFails(s) ==
    /\ pc[s] = "signup_mail"
    /\ now' = now + 1
    /\ AsyncWrapCatch(s)
    /\ Finish(s)
    /\ UNCHANGED <<variant, users, otps, notes, noteSeq, session, otpSeq, stale,
                   verifyCount, authProof>>

\* the handler redirecting without waiting for req.session.save
SignupMailSentNoWait(s, saveOk) ==
    /\ pc[s] = "signup_mail"
    /\ now' = now + 1
    /\ IF saveOk
       THEN session' = [session EXCEPT ![s].userIdentifier = local[s].email]
       ELSE UNCHANGED session
    /\ out' = [s |-> s, req |-> NoReq, resp |-> "redirect /verify-otp",
               mail |-> [to |-> local[s].email, otp |-> local[s].otpCode],
               body |-> {}]
    /\ Finish(s)
    /\ UNCHANGED <<variant, users, otps, notes, noteSeq, otpSeq, stale, verifyCount, authProof>>

\* sendMail resolves; req.session.userIdentifier = email; req.session.save(cb)
SignupMailSent(s, saveOk) ==
    /\ pc[s] = "signup_mail"
    /\ now' = now + 1
    /\ IF saveOk
       THEN /\ session' = [session EXCEPT ![s].userIdentifier = local[s].email]
            /\ out' = [s |-> s, req |-> NoReq, resp |-> "redirect /verify-otp",
                       mail |-> [to |-> local[s].email, otp |-> local[s].otpCode],
                       body |-> {}]
       ELSE /\ UNCHANGED session
            /\ out' = [s |-> s, req |-> NoReq, resp |-> "Session error",
                       mail |-> [to |-> local[s].email, otp |-> local[s].otpCode],
                       body |-> {}]
    /\ Finish(s)
    /\ UNCHANGED <<variant, users, otps, notes, noteSeq, otpSeq, stale, verifyCount, authProof>>

----------------------------------------------------------------------------
(* POST /verify-otp *)

\* the handler that drops the pending email on a mismatch
VerifyOtpFindLockout(s, otp) ==
    /\ pc[s] = "idle"
    /\ LET email == session[s].userIdentifier IN
       IF email = Undefined
       THEN /\ RespondTo(s, ReqOtp(otp), "Session expired or email not found.")
            /\ UNCHANGED <<pc, local, session>>
       ELSE IF OtpFind(email) = {}
       THEN /\ RespondTo(s, ReqOtp(otp), "No OTP record found.")
            /\ UNCHANGED <<pc, local, session>>
       ELSE \E latestOtp \in LatestOtps(email) :
              IF latestOtp.otp # otp
              THEN /\ RespondTo(s, ReqOtp(otp), "Invalid OTP")
                   /\ session' = [session EXCEPT ![s].userIdentifier = Undefined]
                   /\ UNCHANGED <<pc, local>>
              ELSE /\ pc' = [pc EXCEPT ![s] = "verify_delete"]
                   /\ local' = [local EXCEPT ![s] =
                                  [NoLocals EXCEPT !.email = email,
                                                   !.latestOtp = latestOtp._id]]
                   /\ out' = NoOut
                   /\ UNCHANGED session
    /\ UNCHANGED <<variant, users, otps, notes, noteSeq, now, otpSeq, stale,
                   verifyCount, authProof>>

\* the handler without the test of the session's email
VerifyOtpFindNoGuard(s, otp) ==
    /\ pc[s] = "idle"
    /\ LET email == session[s].userIdentifier IN
       IF OtpFind(email) = {}
       THEN /\ RespondTo(s, ReqOtp(otp), "No OTP record found.")
            /\ UNCHANGED <<pc, local>>
       ELSE \E latestOtp \in LatestOtps(email) :
              IF latestOtp.otp # otp
              THEN /\ RespondTo(s, ReqOtp(otp), "Invalid OTP")
                   /\ UNCHANGED <<pc, local>>
              ELSE /\ pc' = [pc EXCEPT ![s] = "verify_delete"]
                   /\ local' = [local EXCEPT ![s] =
                                  [NoLocals EXCEPT !.email = email,
                                                   !.latestOtp = latestOtp._id]]
                   /\ out' = NoOut
    /\ UNCHANGED <<variant, users, otps, notes, noteSeq, session, now, otpSeq, stale,
                   verifyCount, authProof>>

\* the handler with the comparison inverted (=== for !==)
VerifyOtpFindInverted(s, otp) ==
    /\ pc[s] = "idle"
    /\ LET email == session[s].userIdentifier IN
       IF email = Undefined
       THEN /\ RespondTo(s, ReqOtp(otp), "Session expired or email not found.")
            /\ UNCHANGED <<pc, local>>
       ELSE IF OtpFind(email) = {}
       THEN /\ RespondTo(s, ReqOtp(otp), "No OTP record found.")
            /\ UNCHANGED <<pc, local>>
       ELSE \E latestOtp \in LatestOtps(email) :
              IF latestOtp.otp = otp
              THEN /\ RespondTo(s, ReqOtp(otp), "Invalid OTP")
                   /\ UNCHANGED <<pc, local>>
              ELSE /\ pc' = [pc EXCEPT ![s] = "verify_delete"]
                   /\ local' = [local EXCEPT ![s] =
                                  [NoLocals EXCEPT !.email = email,
                                                   !.latestOtp = latestOtp._id]]
                   /\ out' = NoOut
    /\ UNCHANGED <<variant, users, otps, notes, noteSeq, session, now, otpSeq, stale,
                   verifyCount, authProof>>

\* from the start of the handler to the await of OTP.deleteOne
VerifyOtpFind(s, otp) ==
    /\ pc[s] = "idle"
    /\ LET email == session[s].userIdentifier IN
       IF email = Undefined
       THEN /\ RespondTo(s, ReqOtp(otp), "Session expired or email not found.")
            /\ UNCHANGED <<pc, local>>
       ELSE IF OtpFind(email) = {}
       THEN /\ RespondTo(s, ReqOtp(otp), "No OTP record found.")
            /\ UNCHANGED <<pc, local>>
       ELSE \E latestOtp \in LatestOtps(email) :
              IF latestOtp.otp # otp
              THEN /\ RespondTo(s, ReqOtp(otp), "Invalid OTP")
                   /\ UNCHANGED <<pc, local>>
              ELSE /\ pc' = [pc EXCEPT ![s] = "verify_delete"]
                   /\ local' = [local EXCEPT ![s] =
                                  [NoLocals EXCEPT !.email = email,
                                                   !.latestOtp = latestOtp._id]]
                   /\ out' = NoOut
    /\ UNCHANGED <<variant, users, otps, notes, noteSeq, session, now, otpSeq, stale,
                   verifyCount, authProof>>

\* await OTP.deleteOne({ _id: latestOtp._id });
\* req.session.tempUserIdentifier = email; res.redirect("/set-password")
VerifyOtpDelete(s) ==
    /\ pc[s] = "verify_delete"
    /\ otps' = OtpDeleteOne(local[s].latestOtp)
    /\ session' = [session EXCEPT ![s].tempUserIdentifier = local[s].email]
    /\ verifyCount' = [verifyCount EXCEPT ![local[s].latestOtp] = @ + 1]
    /\ Respond(s, "redirect /set-password")
    /\ Finish(s)
    /\ UNCHANGED <<variant, users, notes, noteSeq, now, otpSeq, stale, authProof>>

----------------------------------------------------------------------------
(* POST /set-password *)

\* new User({ email, password }).save(): the collection with the new document
UserSave(email, hashed) == Append(users, [email |-> email, password |-> hashed])

SetPassword(s, password, salt) ==
    /\ pc[s] = "idle"
    /\ Len(users) < MaxUsers
    /\ users' = UserSave(session[s].tempUserIdentifier, BcryptHash(password, salt))
    /\ session' = [session EXCEPT ![s].userId = Len(users')]
    /\ authProof' = [authProof EXCEPT ![s] =
                       IF session[s].tempUserIdentifier # Undefined
                       THEN "otp" ELSE "unverified"]
    /\ Respond(s, "redirect /notes")
    /\ UNCHANGED <<variant, otps, notes, noteSeq, pc, local, now, otpSeq, stale, verifyCount>>

----------------------------------------------------------------------------
(* POST /login, GET /logout *)

Login(s, email, password) ==
    /\ pc[s] = "idle"
    /\ IF UsersByEmail(email) = {}
       THEN /\ Respond(s, "No user")
            /\ UNCHANGED <<session, authProof>>
       ELSE \E id \in UsersByEmail(email) :
              IF ~BcryptCompare(password, users[id].password)
              THEN /\ Respond(s, "Invalid Password")
                   /\ UNCHANGED <<session, authProof>>
              ELSE /\ session' = [session EXCEPT ![s].userId = id]
                   /\ authProof' = [authProof EXCEPT ![s] = "login"]
                   /\ Respond(s, "redirect /notes")
    /\ UNCHANGED <<variant, users, otps, notes, noteSeq, pc, local, now, otpSeq, stale,
                   verifyCount>>

\* a logout that only drops the userId
LogoutKeepsSignup(s) ==
    /\ pc[s] = "idle"
    /\ session' = [session EXCEPT ![s].userId = NoId]
    /\ authProof' = [authProof EXCEPT ![s] = "none"]
    /\ Respond(s, "redirect /login")
    /\ UNCHANGED <<variant, users, otps, notes, noteSeq, pc, local, now, otpSeq, stale,
                   verifyCount>>

\* req.session.destroy(): the client's next request starts an empty session
Logout(s) ==
    /\ pc[s] = "idle"
    /\ session' = [session EXCEPT ![s] = EmptySession]
    /\ authProof' = [authProof EXCEPT ![s] = "none"]
    /\ Respond(s, "redirect /login")
    /\ UNCHANGED <<variant, users, otps, notes, noteSeq, pc, local, now, otpSeq, stale,
                   verifyCount>>

----------------------------------------------------------------------------
(* The notes routes; every one of them goes through requireLogin first *)

\* a guard that takes a verified signup email for a login as well
RequireLoginOrVerified(s) ==
    session[s].userId # NoId \/ session[s].tempUserIdentifier # Undefined

\* if (!req.session.userId) return res.redirect("/login")
RequireLogin(s) == session[s].userId # NoId

\* the query without the owner: Note.find({})
NoteFindAll(user) == notes

\* Note.find({ user }) / Note.findOne({ _id: id, user }): the matching documents
NoteFind(user) == {n \in notes : n.user = user}
\* the query without the owner: { _id: id }
NoteFindOneAnyOwner(id, user) == {n \in notes : n._id = id}
NoteFindOne(id, user) == {n \in notes : n._id = id /\ n.user = user}

\* GET /notes
NotesIndex(s) ==
    /\ pc[s] = "idle"
    /\ IF ~RequireLogin(s)
       THEN Respond(s, "redirect /login")
       ELSE Render(s, NoReq, "render notes/index", NoteFind(session[s].userId))
    /\ UNCHANGED <<variant, users, otps, notes, noteSeq, session, pc, local, now,
                   otpSeq, stale, verifyCount, authProof>>

\* POST /notes
NoteCreate(s, title, content) ==
    /\ pc[s] = "idle"
    /\ IF ~RequireLogin(s)
       THEN /\ Respond(s, "redirect /login")
            /\ UNCHANGED <<notes, noteSeq>>
       ELSE /\ noteSeq < MaxNotes
            /\ notes' = notes \cup {[_id |-> noteSeq + 1, title |-> title,
                                     content |-> content, user |-> session[s].userId]}
            /\ noteSeq' = noteSeq + 1
            /\ Respond(s, "redirect /notes")
    /\ UNCHANGED <<variant, users, otps, session, pc, local, now, otpSeq, stale,
                   verifyCount, authProof>>

\* GET /notes/:id
NoteShow(s, id) ==
    /\ pc[s] = "idle"
    /\ IF ~RequireLogin(s)
       THEN Respond(s, "redirect /login")
       ELSE IF NoteFindOne(id, session[s].userId) = {}
       THEN RespondTo(s, ReqId(id), "404 Note not found!")
       ELSE Render(s, ReqId(id), "render notes/show", NoteFindOne(id, session[s].userId))
    /\ UNCHANGED <<variant, users, otps, notes, noteSeq, session, pc, local, now,
                   otpSeq, stale, verifyCount, authProof>>

\* GET /notes/:id/edit
NoteEdit(s, id) ==
    /\ pc[s] = "idle"
    /\ IF ~RequireLogin(s)
       THEN Respond(s, "redirect /login")
       ELSE IF NoteFindOne(id, session[s].userId) = {}
       THEN RespondTo(s, ReqId(id), "404 Note not found!")
       ELSE Render(s, ReqId(id), "render notes/edit", NoteFindOne(id, session[s].userId))
    /\ UNCHANGED <<variant, users, otps, notes, noteSeq, session, pc, local, now,
                   otpSeq, stale, verifyCount, authProof>>

\* Note.findOneAndUpdate({ _id: id, user }, { title, content }): the collection
\* after it
NoteFindOneAndUpdate(id, user, title, content) ==
    {IF n._id = id /\ n.user = user
     THEN [n EXCEPT !.title = title, !.content = content] ELSE n : n \in notes}

\* PUT /notes/:id
NoteUpdate(s, id, title, content) ==
    /\ pc[s] = "idle"
    /\ IF ~RequireLogin(s)
       THEN /\ Respond(s, "redirect /login")
            /\ UNCHANGED notes
       ELSE IF NoteFindOne(id, session[s].userId) = {}
       THEN /\ RespondTo(s, ReqId(id), "404 Note not found!")
            /\ notes' = NoteFindOneAndUpdate(id, session[s].userId, title, content)
       ELSE /\ RespondTo(s, ReqId(id), "redirect /notes")
            /\ notes' = NoteFindOneAndUpdate(id, session[s].userId, title, content)
    /\ UNCHANGED <<variant, users, otps, noteSeq, session, pc, local, now, otpSeq,
                   stale, verifyCount, authProof>>

\* Note.findOneAndDelete({ _id: id, user }): the collection after it
NoteFindOneAndDelete(id, user) == {n \in notes : ~(n._id = id /\ n.user = user)}

\* DELETE /notes/:id
NoteDelete(s, id) ==
    /\ pc[s] = "idle"
    /\ IF ~RequireLogin(s)
       THEN /\ Respond(s, "redirect /login")
            /\ UNCHANGED notes
       ELSE IF NoteFindOne(id, session[s].userId) = {}
       THEN /\ RespondTo(s, ReqId(id), "404 Note not found!")
            /\ notes' = NoteFindOneAndDelete(id, session[s].userId)
       ELSE /\ RespondTo(s, ReqId(id), "redirect /notes")
            /\ notes' = NoteFindOneAndDelete(id, session[s].userId)
    /\ UNCHANGED <<variant, users, otps, noteSeq, session, pc, local, now, otpSeq,
                   stale, verifyCount, authProof>>

----------------------------------------------------------------------------
(* The application *)

Next ==
    \/ \E s \in Sessions, email \in Emails, otpCode \in Codes : SignupCreate(s, email, otpCode)
    \/ \E s \in Sessions : SignupMailFails(s)
    \/ \E s \in Sessions, saveOk \in BOOLEAN : SignupMailSent(s, saveOk)
    \/ \E s \in Sessions, otp \in Codes : VerifyOtpFind(s, otp)
    \/ \E s \in Sessions : VerifyOtpDelete(s)
    \/ \E s \in Sessions, password \in Passwords, salt \in Salts : SetPassword(s, password, salt)
    \/ \E s \in Sessions, email \in Emails, password \in LoginPasswords : Login(s, email, password)
    \/ \E s \in Sessions : Logout(s)

Spec == Init /\ [][Next]_vars

----------------------------------------------------------------------------
(* The copy of the application whose signup looks for an existing account *)

InitPart == variant = "part" /\ users = <<>> /\ InitStores

NextPart ==
    \/ \E s \in Sessions, email \in Emails : SignupCheck(s, email)
    \/ Next

SpecPart == InitPart /\ [][NextPart]_vars

----------------------------------------------------------------------------
(* The notes routes on a database that already holds two accounts: the       *)
(* server starts with the collections earlier runs left and no session.      *)

NoteIds == 1..(MaxNotes + 1)

InitNotes ==
    /\ variant = "app"
    /\ users = <<[email |-> "a@x.com", password |-> BcryptHash("secret", "salt1")],
                 [email |-> "b@x.com", password |-> BcryptHash("secret", "salt1")]>>
    /\ InitStores

NextNotes ==
    \/ \E s \in Sessions, email \in NoteEmails, password \in LoginPasswords :
          Login(s, email, password)
    \/ \E s \in Sessions : Logout(s)
    \/ \E s \in Sessions : NotesIndex(s)
    \/ \E s \in Sessions, title \in Texts, content \in Texts : NoteCreate(s, title, content)
    \/ \E s \in Sessions, id \in NoteIds : NoteShow(s, id)
    \/ \E s \in Sessions, id \in NoteIds : NoteEdit(s, id)
    \/ \E s \in Sessions, id \in NoteIds, title \in Texts, content \in Texts :
          NoteUpdate(s, id, title, content)
    \/ \E s \in Sessions, id \in NoteIds : NoteDelete(s, id)

SpecNotes == InitNotes /\ [][NextNotes]_vars

----------------------------------------------------------------------------
(* The whole application: the signup flow, login and the notes routes.  One *)
(* client goes through every route; the other one is a returning user, who  *)
(* logs in, works on notes and logs out.                                     *)

FlowSessions == {"s1"}

NoteRoutes ==
    \/ \E s \in Sessions : NotesIndex(s)
    \/ \E s \in Sessions, text \in FlowTexts : NoteCreate(s, text, text)
    \/ \E s \in Sessions, id \in NoteIds : NoteShow(s, id)
    \/ \E s \in Sessions, id \in NoteIds : NoteEdit(s, id)
    \/ \E s \in Sessions, id \in NoteIds, text \in FlowTexts : NoteUpdate(s, id, text, text)
    \/ \E s \in Sessions, id \in NoteIds : NoteDelete(s, id)

NextAll ==
    \/ \E s \in FlowSessions, email \in Emails, otpCode \in Codes : SignupCreate(s, email, otpCode)
    \/ \E s \in FlowSessions : SignupMailFails(s)
    \/ \E s \in FlowSessions, saveOk \in BOOLEAN : SignupMailSent(s, saveOk)
    \/ \E s \in FlowSessions, otp \in Codes : VerifyOtpFind(s, otp)
    \/ \E s \in FlowSessions : VerifyOtpDelete(s)
    \/ \E s \in FlowSessions, password \in Passwords, salt \in Salts : SetPassword(s, password, salt)
    \/ \E s \in Sessions, email \in Emails, password \in LoginPasswords : Login(s, email, password)
    \/ \E s \in Sessions : Logout(s)
    \/ NoteRoutes

SpecAll == Init /\ [][NextAll]_vars

----------------------------------------------------------------------------
(* Properties *)

\* the step is the POST /set-password of session s
IsSetPassword(s) == \E password \in Passwords, salt \in Salts : SetPassword(s, password, salt)

\* the step is the end of a POST /verify-otp of session s that passed
IsVerified(s) == pc[s] = "verify_delete" /\ pc'[s] = "idle"

\* C1: POST /set-password from a session without a verified identity fails:
\* it creates no User and does not set the session's userId.
C1_SetPasswordNeedsVerifiedIdentity ==
    [][\A s \in Sessions :
         (session[s].tempUserIdentifier = Undefined /\ IsSetPassword(s))
           => (users' = users /\ session'[s].userId = session[s].userId)]_vars

\* C2: at most one verification succeeds against one OTP record.
C2_OtpConsumedOnce == \A i \in DOMAIN verifyCount : verifyCount[i] <= 1

\* the answer a notes/:id route gives for a note that is not there
NotFound(s, id) == [s |-> s, req |-> ReqId(id), resp |-> "404 Note not found!",
                    mail |-> NoMail, body |-> {}]

\* the step is a GET /notes/:id, GET /notes/:id/edit, PUT /notes/:id or
\* DELETE /notes/:id of session s
IsNoteRequest(s, id) ==
    \/ NoteShow(s, id)
    \/ NoteEdit(s, id)
    \/ \E title \in Texts, content \in Texts : NoteUpdate(s, id, title, content)
    \/ NoteDelete(s, id)

\* C3: a notes/:id request of a logged-in session on a note of another user
\* leaves the notes as they are and is answered exactly as the request for an
\* id that no note has; no answer ever carries a note of another user.
C3_ForeignNoteIsNotFound ==
    [][/\ \A s \in Sessions, id \in NoteIds :
            (/\ IsNoteRequest(s, id)
             /\ session[s].userId # NoId
             /\ \A n \in notes : n._id = id => n.user # session[s].userId)
              => (notes' = notes /\ out' = NotFound(s, id))
       /\ \A s \in Sessions : \A n \in out'.body :
            out'.s = s => n.user = session[s].userId]_vars

\* C3 happens: a logged-in session was answered not-found for the id of a
\* note that exists and belongs to another user
C3_Witness ==
    \E s \in Sessions, n \in notes :
        /\ out = NotFound(s, n._id)
        /\ session[s].userId # NoId
        /\ n.user # session[s].userId

\* C4: POST /verify-otp with a code that differs from the code of the latest
\* OTP record of the pending email deletes no OTP record, leaves the session
\* as it is and ends the request with the mismatch answer.
C4_WrongCodeChangesNothing ==
    [][\A s \in Sessions, otp \in Codes :
         (/\ VerifyOtpFind(s, otp)
          /\ OtpFind(session[s].userIdentifier) # {}
          /\ \A r \in OtpFind(session[s].userIdentifier) :
               (\A r2 \in OtpFind(session[s].userIdentifier) : r2.createdAt <= r.createdAt)
                 => r.otp # otp)
           => /\ otps' = otps
              /\ session' = session
              /\ pc'[s] = "idle"
              /\ out'.resp = "Invalid OTP"]_vars

\* C4 happens: a wrong code was answered with the mismatch and the record of
\* the pending email is still there with another code
C4_Witness ==
    \E s \in Sessions :
        /\ out.s = s /\ out.resp = "Invalid OTP"
        /\ OtpFind(session[s].userIdentifier) # {}
        /\ \A r \in OtpFind(session[s].userIdentifier) : r.otp # out.req.otp

\* C5: a verification that passes deletes exactly the matched record and
\* leaves the session verified but not authenticated.
C5_CorrectCodeDeletesExactlyThatRecord ==
    [][\A s \in Sessions : IsVerified(s) =>
         /\ \E r \in otps : r._id = local[s].latestOtp /\ otps' = otps \ {r}
         /\ session'[s].tempUserIdentifier = local[s].email
         /\ session'[s].userId = NoId]_vars

\* C6: a session holds at most one of a pending email, a verified email and
\* a userId.
C6_OneIdentityAtATime ==
    \A s \in Sessions :
        Cardinality({f \in {"userIdentifier", "tempUserIdentifier"} :
                       session[s][f] # Undefined}
                    \cup {f \in {"userId"} : session[s][f] # NoId}) <= 1

\* C7: a userId in a session is the id of an existing User that the session
\* proved itself for, by the login password check or by OTP verification
\* followed by set-password.
C7_UserIdMeansAuthenticated ==
    \A s \in Sessions :
        session[s].userId # NoId
          => /\ session[s].userId \in 1..Len(users)
             /\ authProof[s] \in {"login", "otp"}

\* C8: no two User records share an email.
C8_UserEmailsDistinct ==
    \A i, j \in 1..Len(users) :
        (i # j /\ users[i].email # Undefined) => users[i].email # users[j].email

\* C9: no verification passes on an OTP record after a newer record with a
\* different code was issued for the same email.
C9_SupersededOtpNeverVerifies ==
    [][\A s \in Sessions : IsVerified(s) => local[s].latestOtp \notin stale]_vars

\* s is pending on an email that has exactly two OTP records, older and newer,
\* issued one after the other with no verification passed on either
TwoSignups(s, older, newer) ==
    /\ pc[s] = "idle"
    /\ session[s].userIdentifier # Undefined
    /\ OtpFind(session[s].userIdentifier) = {older, newer}
    /\ older.createdAt < newer.createdAt
    /\ verifyCount[older._id] = 0 /\ verifyCount[newer._id] = 0

\* a signup adds one OTP record for its email and takes none away
SignupAddsRecord ==
    \A s \in Sessions, email \in Emails, otpCode \in Codes :
        SignupCreate(s, email, otpCode)
          => /\ otps \subseteq otps'
             /\ Cardinality({r \in otps' : r.userIdentifier = email})
                  = Cardinality(OtpFind(email)) + 1

\* the newer code passes: the request goes on to consume the newer record
NewerCodePasses(s, newer) ==
    VerifyOtpFind(s, newer.otp)
      => pc'[s] = "verify_delete" /\ local'[s].latestOtp = newer._id

\* the older code is answered with the mismatch and nothing is deleted
OlderCodeFails(s, older) ==
    VerifyOtpFind(s, older.otp)
      => out'.resp = "Invalid OTP" /\ otps' = otps /\ pc'[s] = "idle"

\* C10 as stated: after two sequential signups for one email the older code
\* fails with a mismatch and deletes nothing, the newer code passes.
C10_OlderCodeFailsNewerPasses ==
    [][/\ SignupAddsRecord
       /\ \A s \in Sessions : \A older, newer \in otps :
            TwoSignups(s, older, newer)
              => OlderCodeFails(s, older) /\ NewerCodePasses(s, newer)]_vars

\* C10 amended: the older code fails when it differs from the newer code.
C10_OlderCodeFailsWhenDifferent ==
    [][/\ SignupAddsRecord
       /\ \A s \in Sessions : \A older, newer \in otps :
            TwoSignups(s, older, newer)
              => /\ older.otp # newer.otp => OlderCodeFails(s, older)
                 /\ NewerCodePasses(s, newer)]_vars

\* C10 happens: with two unconsumed records of different codes, the older
\* code has just been answered with the mismatch
C10_Witness ==
    \E s \in Sessions : \E older, newer \in otps :
        /\ TwoSignups(s, older, newer)
        /\ older.otp # newer.otp
        /\ out.s = s /\ out.resp = "Invalid OTP" /\ out.req.otp = older.otp

\* the step is the end of a POST /signup of session s that redirects to
\* /verify-otp
SignupSucceeds(s) ==
    pc[s] = "signup_mail" /\ out'.s = s /\ out'.resp = "redirect /verify-otp"

\* C11 as stated: right after a successful POST /signup exactly one OTP record
\* has the submitted email, and its code is the code in the mail.
C11_ExactlyOneRecordAfterSignup ==
    [][\A s \in Sessions : SignupSucceeds(s) =>
         /\ out'.mail.to = local[s].email
         /\ \E r \in otps' :
              /\ {r2 \in otps' : r2.userIdentifier = local[s].email} = {r}
              /\ r.otp = out'.mail.otp]_vars

\* C11 amended: a successful POST /signup has added exactly one OTP record,
\* with the submitted email and the code in the mail; right afterwards that
\* record is stored, next to the records issued for the email before, unless
\* a verification that ran meanwhile consumed it.
C11_SignupRecordMatchesMail ==
    [][/\ SignupAddsRecord
       /\ \A s \in Sessions : SignupSucceeds(s) =>
            /\ out'.mail.to = local[s].email
            /\ \/ \E r \in otps' : /\ r._id = local[s].doc
                                    /\ r.userIdentifier = out'.mail.to
                                    /\ r.otp = out'.mail.otp
               \/ verifyCount[local[s].doc] >= 1
            /\ \A r \in otps : r.userIdentifier = local[s].email => r \in otps']_vars

\* C11 happens: a signup has just succeeded, its record with the code of the
\* mail is stored next to an earlier record for the same email
C11_Witness ==
    \E r \in otps, earlier \in otps :
        /\ out.resp = "redirect /verify-otp"
        /\ r.userIdentifier = out.mail.to /\ r.otp = out.mail.otp
        /\ earlier.userIdentifier = out.mail.to /\ earlier._id < r._id
        /\ session[out.s].userIdentifier = out.mail.to

\* C12: within a POST /signup the OTP record is stored before the mail goes
\* out, the pending email is in the saved session when the redirect to
\* /verify-otp is answered, and a failed save is answered with an error and
\* no redirect.
C12_SignupSideEffectsOrdered ==
    [][\A s \in Sessions :
         /\ (out'.s = s /\ out'.mail # NoMail) =>
              /\ pc[s] = "signup_mail"
              /\ out'.mail = [to |-> local[s].email, otp |-> local[s].otpCode]
              /\ \/ \E r \in otps : /\ r._id = local[s].doc
                                     /\ r.userIdentifier = local[s].email
                                     /\ r.otp = local[s].otpCode
                 \/ verifyCount[local[s].doc] >= 1
         /\ (out'.s = s /\ out'.resp = "redirect /verify-otp") =>
              /\ pc[s] = "signup_mail"
              /\ session'[s].userIdentifier = local[s].email
         /\ SignupMailSent(s, FALSE) =>
              /\ out'.resp = "Session error"
              /\ session' = session]_vars

\* C12 happens: the save of the session failed after the mail went out for a
\* stored record; the answer is the error and the session has no pending email
C12_Witness ==
    \E s \in Sessions, r \in otps :
        /\ out.s = s /\ out.resp = "Session error"
        /\ r.userIdentifier = out.mail.to /\ r.otp = out.mail.otp
        /\ session[s].userIdentifier = Undefined

NothingChanged ==
    UNCHANGED <<variant, users, otps, notes, noteSeq, session, pc, local, now, otpSeq>>

\* C14: POST /verify-otp from a session without a pending email is answered
\* with the missing-identity error whatever the OTP collection holds, and
\* with a pending email that has no OTP record it is answered that no OTP was
\* found; neither deletes a record nor changes the session.
C14_VerifyPreconditionFailures ==
    [][\A s \in Sessions, otp \in Codes : VerifyOtpFind(s, otp) =>
         /\ session[s].userIdentifier = Undefined =>
              /\ out'.resp = "Session expired or email not found."
              /\ NothingChanged
         /\ (/\ session[s].userIdentifier # Undefined
             /\ \A r \in otps : r.userIdentifier # session[s].userIdentifier) =>
              /\ out'.resp = "No OTP record found."
              /\ NothingChanged]_vars

\* C14 happens: a session with a pending email whose records are gone was
\* answered that no OTP was found
C14_Witness ==
    \E s \in Sessions :
        /\ out.s = s /\ out.resp = "No OTP record found."
        /\ session[s].userIdentifier # Undefined
        /\ OtpFind(session[s].userIdentifier) = {}

\* C14 happens as well: a session without a pending email was answered with
\* the missing-identity error while OTP records are stored
C14_WitnessNoIdentity ==
    \E s \in Sessions :
        /\ out.s = s /\ out.resp = "Session expired or email not found."
        /\ session[s].userIdentifier = Undefined
        /\ otps # {}

\* the stored password of user id is a bcrypt hash of password
HashOf(id, password) == \E salt \in Salts : users[id].password = BcryptHash(password, salt)

\* C15: POST /login fails and leaves the session as it was when no User has
\* the email or when the password is not the one the User's hash was made
\* of; when it succeeds it sets userId to the id of a User with that email and
\* that password and nothing else, whatever signup state the session is in;
\* it never changes the User or the OTP collection.
C15_LoginChecksPassword ==
    [][\A s \in Sessions, email \in Emails, password \in LoginPasswords :
         Login(s, email, password) =>
           /\ users' = users /\ otps' = otps
           /\ UsersByEmail(email) = {} =>
                out'.resp = "No user" /\ session' = session
           /\ (/\ UsersByEmail(email) # {}
               /\ \A id \in UsersByEmail(email) : ~HashOf(id, password)) =>
                out'.resp = "Invalid Password" /\ session' = session
           /\ (\A id \in UsersByEmail(email) : HashOf(id, password)) =>
                UsersByEmail(email) = {} \/ out'.resp = "redirect /notes"
           /\ out'.resp = "redirect /notes" =>
                \E id \in UsersByEmail(email) :
                    /\ HashOf(id, password)
                    /\ session' = [session EXCEPT ![s].userId = id]]_vars

\* C15 happens: a session that never signed up is logged in by its password
C15_Witness ==
    \E s \in Sessions :
        /\ out.s = s /\ out.resp = "redirect /notes"
        /\ authProof[s] = "login"
        /\ session[s].userIdentifier = Undefined
        /\ session[s].tempUserIdentifier = Undefined
        /\ session[s].userId \in 1..Len(users)

\* C15 happens as well: a wrong password for an existing User was refused
C15_WitnessRefused ==
    \E s \in Sessions :
        /\ out.s = s /\ out.resp = "Invalid Password"
        /\ session[s].userId = NoId
        /\ UsersByEmail("a@x.com") # {}

\* the step is a request of session s to one of the /notes routes
IsNotesRoute(s) ==
    \/ NotesIndex(s)
    \/ \E title \in Texts, content \in Texts : NoteCreate(s, title, content)
    \/ \E id \in NoteIds : IsNoteRequest(s, id)

\* the answer of requireLogin to a session that is not logged in
ToLogin(s) == [s |-> s, req |-> NoReq, resp |-> "redirect /login", mail |-> NoMail,
               body |-> {}]

\* C16: a request to a /notes route from a session without a userId, also one
\* that holds a pending or a verified signup email, is redirected to /login,
\* shows no note and changes no note.
C16_NotesRoutesRequireLogin ==
    [][\A s \in Sessions : (session[s].userId = NoId /\ IsNotesRoute(s)) =>
         /\ out' = ToLogin(s)
         /\ notes' = notes /\ noteSeq' = noteSeq
         /\ session' = session]_vars

\* C16 happens: a session that holds a verified signup email and no userId
\* was sent to /login while notes are stored
C16_Witness ==
    \E s \in Sessions :
        /\ out = ToLogin(s)
        /\ session[s].userId = NoId
        /\ session[s].tempUserIdentifier # Undefined
        /\ notes # {}

\* C17: a mismatch leaves the pending email and the records as they are, so
\* the latest record stays the latest; whenever a session with a pending
\* email submits the code of the latest record the verification passes, after
\* however many mismatches.
C17_MismatchNeverLocksOut ==
    [][\A s \in Sessions, otp \in Codes :
         /\ (VerifyOtpFind(s, otp) /\ out'.resp = "Invalid OTP") =>
              /\ session'[s].userIdentifier = session[s].userIdentifier
              /\ otps' = otps
              /\ pc'[s] = "idle"
         /\ (/\ VerifyOtpFind(s, otp)
             /\ session[s].userIdentifier # Undefined
             /\ \E r \in otps : r.userIdentifier = session[s].userIdentifier
             /\ \A r \in otps :
                  (/\ r.userIdentifier = session[s].userIdentifier
                   /\ \A r2 \in otps : r2.userIdentifier = r.userIdentifier
                                          => r2.createdAt <= r.createdAt)
                    => r.otp = otp) =>
              pc'[s] = "verify_delete"
         /\ VerifyOtpDelete(s) =>
              /\ out'.resp = "redirect /set-password"
              /\ session'[s].tempUserIdentifier = session[s].userIdentifier]_vars

\* C17 happens: a session has just been answered with the mismatch and the
\* code of the latest record of its pending email would pass now
C17_Witness ==
    \E s \in Sessions, r \in otps :
        /\ out.s = s /\ out.resp = "Invalid OTP"
        /\ r \in LatestOtps(session[s].userIdentifier)
        /\ r.otp # out.req.otp
        /\ ENABLED (VerifyOtpFind(s, r.otp) /\ pc'[s] = "verify_delete")

\* session s has gone through one signup and its verification for an email
\* that no User has, and no other OTP record was ever issued
FlowDone(s) ==
    /\ session[s].tempUserIdentifier # Undefined
    /\ UsersByEmail(session[s].tempUserIdentifier) = {}
    /\ otpSeq = 1 /\ verifyCount = <<1>>

\* C18: after signup with a new email and verification with the issued code,
\* POST /set-password creates the one User with that email, whose stored
\* password is a bcrypt hash and not the plaintext, no OTP record is left for
\* the email, the session has the id of that User and no note belongs to it;
\* GET /notes of a logged-in session lists the notes of its user and no other.
C18_SignupEndToEnd ==
    [][\A s \in Sessions :
         /\ \A password \in Passwords, salt \in Salts :
              (FlowDone(s) /\ SetPassword(s, password, salt)) =>
                /\ Len(users') = Len(users) + 1
                /\ \A i \in 1..Len(users) : users'[i] = users[i]
                /\ users'[Len(users')].email = session[s].tempUserIdentifier
                /\ users'[Len(users')].password # password
                /\ users'[Len(users')].password = BcryptHash(password, salt)
                /\ \A r \in otps' : r.userIdentifier # session[s].tempUserIdentifier
                /\ session'[s].userId = Len(users')
                /\ \A n \in notes' : n.user # Len(users')
                /\ out'.resp = "redirect /notes"
         /\ (session[s].userId # NoId /\ NotesIndex(s)) =>
                /\ out'.resp = "render notes/index"
                /\ out'.body = {n \in notes : n.user = session[s].userId}]_vars

\* C18 happens: the flow has ended in a session that is logged in as the one
\* User with the email, no OTP record is left, and GET /notes has just shown
\* it an empty list while another user has notes
C18_Witness ==
    \E s \in Sessions :
        /\ authProof[s] = "otp"
        /\ session[s].userId = Len(users)
        /\ UsersByEmail(session[s].tempUserIdentifier) = {Len(users)}
        /\ otpSeq = 1 /\ otps = {}
        /\ out = [s |-> s, req |-> NoReq, resp |-> "render notes/index",
                   mail |-> NoMail, body |-> {}]
        /\ notes # {}

\* the ids of the stored notes
NoteIdsOf(store) == {n._id : n \in store}

\* C19: a note enters the store only by POST /notes, with a new id and the
\* userId of the session that sent it; it leaves the store only by DELETE
\* /notes/:id of a session of its owner; no step changes the owner of a note;
\* GET /notes of a logged-in session lists exactly the stored notes of its
\* user.
C19_IndexListsOwnNotes ==
    [][/\ \A n \in notes' : n._id \notin NoteIdsOf(notes) =>
            /\ n._id = noteSeq + 1 /\ noteSeq' = noteSeq + 1
            /\ notes' = notes \cup {n}
            /\ \E s \in Sessions :
                 /\ n.user = session[s].userId /\ n.user # NoId
                 /\ NoteCreate(s, n.title, n.content)
       /\ \A n \in notes : n._id \notin NoteIdsOf(notes') =>
            /\ notes' = notes \ {n}
            /\ \E s \in Sessions : session[s].userId = n.user /\ NoteDelete(s, n._id)
       /\ \A n \in notes, n2 \in notes' : n._id = n2._id => n.user = n2.user
       /\ \A n, n2 \in notes' : n._id = n2._id => n = n2
       /\ \A s \in Sessions : (session[s].userId # NoId /\ NotesIndex(s)) =>
            /\ out'.resp = "render notes/index"
            /\ out'.body = {n \in notes : n.user = session[s].userId}]_vars

\* C19 happens: GET /notes has just shown a user exactly its note while a
\* note of the other user is stored
C19_Witness ==
    \E s \in Sessions, mine \in notes, other \in notes :
        /\ out.s = s /\ out.resp = "render notes/index"
        /\ out.body = {mine}
        /\ mine.user = session[s].userId
        /\ other.user # session[s].userId

\* C20: GET /logout leaves the session with no userId, no pending and no
\* verified email; from such a session every /notes route redirects to /login
\* and changes no note, and POST /set-password finds no verified email to
\* give to the User it saves.
C20_LogoutDestroysSession ==
    [][\A s \in Sessions :
         /\ Logout(s) =>
              /\ session'[s] = EmptySession
              /\ out'.resp = "redirect /login"
              /\ \A s2 \in Sessions \ {s} : session'[s2] = session[s2]
         /\ (session[s] = EmptySession /\ IsNotesRoute(s)) =>
              out' = ToLogin(s) /\ notes' = notes
         /\ (session[s] = EmptySession /\ IsSetPassword(s)) =>
              users'[Len(users')].email = Undefined]_vars

\* C20 happens: the session that had verified an email and set a password
\* holds nothing after its logout
C20_Witness ==
    \E s \in FlowSessions :
        /\ out = ToLogin(s)
        /\ session[s] = EmptySession
        /\ otpSeq = 1 /\ verifyCount = <<1>>
        /\ Len(users) = 1 /\ users[1].email # Undefined

RECURSIVE SumSeq(_)
SumSeq(q) == IF q = <<>> THEN 0 ELSE Head(q) + SumSeq(Tail(q))

\* the Users saved with a verified email
VerifiedUsers == {i \in 1..Len(users) : users[i].email # Undefined}

\* C21: one successful OTP verification authorises at most one account
\* creation: a session that created a User creates no further one without a
\* new successful verification, so the Users holding a verified email never
\* outnumber the verifications that passed.
C21_OneAccountPerVerification == Cardinality(VerifiedUsers) <= SumSeq(verifyCount)

\* the step is a POST /signup of session s, in the copy with the check, for
\* an email that a User already holds
IsSignupOfExistingUser(s) ==
    \E email \in Emails : UsersByEmail(email) # {} /\ SignupCheck(s, email)

\* C22, first half: in the copy whose signup looks for an existing account, a
\* POST /signup with the email of a User creates no OTP record, sends no
\* mail and leaves the session's pending email as it was.
C22_ExistingEmailSignupStops ==
    [][\A s \in Sessions :
         IsSignupOfExistingUser(s) =>
            /\ otps' = otps /\ otpSeq' = otpSeq
            /\ out'.mail = NoMail
            /\ out'.resp = "Email already registered. Please login."
            /\ session' = session
            /\ pc'[s] = "idle"]_vars

\* C22: in the copy whose signup looks for an existing account, a signup
\* with the email of a User stops before any effect, and, as long as a
\* single signup was ever admitted (so none ran concurrently), every User a
\* set-password creates with a verified email has an email no other User
\* holds.
C22_SignupCheckKeepsEmailsUnique ==
    [][\A s \in Sessions :
         /\ IsSignupOfExistingUser(s) =>
              (otps' = otps /\ out'.mail = NoMail /\ session' = session)
         /\ (/\ variant = "part"
             /\ otpSeq <= 1
             /\ session[s].tempUserIdentifier # Undefined
             /\ IsSetPassword(s))
              => UsersByEmail(session[s].tempUserIdentifier) = {}]_vars

TypeOK == pc \in [Sessions -> {"idle", "signup_create", "signup_mail", "verify_delete"}]

====
